---- MODULE Spec2Model ----
(***************************************************************************)
(* TalkingLeaves (TalkingLeaves.glyphsPlugin/Contents/Resources/           *)
(* TalkingLeaves.py): the orthography coverage engine of the plugin.       *)
(*                                                                         *)
(* Characters and glyph names are small integers.  A string is a sequence  *)
(* of codepoints, so that the length of a joined string is computed and    *)
(* not assumed.  An unhandled Python exception leaves the object with the  *)
(* assignments made before the raise; `raised` names the exception of the  *)
(* last handler ("none" when it returned).                                 *)
(***************************************************************************)
EXTENDS Integers, Sequences, FiniteSets, TLC

\* ---------------------------------------------------------------- bounds
\* the glyph names a font may hold and the host may answer
NNames == 3
\* the largest number of orthographies of a script in StatusSpec
MaxTotal == 10

GlyphNames == 1..NNames

\* ------------------------------------------------------ program constants
\* Glyphs.glyphInfoForUnicode returned no info (Python None)
NoInfo == 0
\* U+25CC DOTTED CIRCLE, the prefix of addDottedCircle
DottedCircle == 9676
\* U+0020, the separator of ' '.join(l) in charList
Space == 32
\* the "no data" sentinel of the 'L1 Speakers' column
NoSpeakers == -1
\* a dict key that is absent (speakers, script)
Absent == -2
NoScript == "<no script>"

\* ------------------------------------------------------ language database
\* hyperglot.languages.Languages(): an ordered mapping of language records.
\* hasOrthographies is FALSE when the record has no 'orthographies' key;
\* an orthography whose script is NoScript has no 'script' key.
Ortho(script, base, marks) == [script |-> script, base |-> base, marks |-> marks]

Lang(code, speakers, hasOrthos, orthos) ==
  [code |-> code, speakers |-> speakers, hasOrthographies |-> hasOrthos,
   orthographies |-> orthos]

DbPlain ==
  << Lang("aaa", 10, TRUE, << Ortho("Latin", <<2, 1, 1>>, <<>>) >>),
     Lang("bbb", 5, TRUE, << Ortho("Latin", <<1>>, <<3>>),
                             Ortho("Latin", <<2, 1>>, <<>>) >>),
     Lang("ccc", 7, FALSE, <<>>),
     Lang("ddd", 20, TRUE, << Ortho("Cyrillic", <<3, 2, 1>>, <<>>) >>),
     Lang("eee", Absent, TRUE, << Ortho("Cyrillic", <<>>, <<1, 2>>) >>) >>

DbSmall ==
  << Lang("aaa", 9, TRUE, << Ortho("Latin", <<3>>, <<>>) >>),
     Lang("bbb", 3, TRUE, << Ortho("Cyrillic", <<3, 1, 2>>, <<>>),
                             Ortho("Latin", <<1, 2>>, <<>>) >>),
     Lang("ccc", 0, TRUE, << Ortho("Cyrillic", <<>>, <<1, 2>>) >>),
     Lang("ddd", Absent, TRUE, << Ortho("Cyrillic", <<>>, <<>>) >>) >>

DbMalformed ==
  << Lang("aaa", 10, TRUE, << Ortho("Latin", <<1, 2>>, <<>>) >>),
     Lang("bbb", 5, TRUE, << Ortho(NoScript, <<3>>, <<>>) >>),
     Lang("ccc", 2, TRUE, << Ortho("Latin", <<3>>, <<>>) >>) >>

Databases == {DbPlain, DbSmall, DbMalformed}

\* the characters of the databases: the only ones the host is asked about
OrthosIn(db) ==
  UNION {{db[i].orthographies[k] : k \in DOMAIN db[i].orthographies} : i \in DOMAIN db}

Chars ==
  UNION {{o.base[n] : n \in DOMAIN o.base} \cup {o.marks[n] : n \in DOMAIN o.marks} :
           o \in UNION {OrthosIn(db) : db \in Databases}}

VARIABLES
  hg,                       \* self.hg / self.hgYaml
  hostInfo,                 \* Glyphs.glyphInfoForUnicode, per character
  font,                     \* glyph names of self.font.glyphs (the host's)
  pc,                       \* "start", "open" or "dead"
  scriptsData,              \* self.scriptsData, as an ordered list
  scriptsLangCount,         \* self.scriptsLangCount
  glyphInfoByChar,          \* self.glyphInfoByChar
  charsByGlyphName,         \* self.charsByGlyphName
  allMarks,                 \* self.allMarks
  currentScript,            \* self.currentScript
  currentScriptSupported,   \* self.currentScriptSupported
  currentScriptUnsupported, \* self.currentScriptUnsupported
  showSupported,            \* self.w.showSupported
  showUnsupported,          \* self.w.showUnsupported
  selectedScript,           \* self.scriptsTable selection, 0 when empty
  langsTable,               \* rows of self.langsTable
  statusBar,                \* self.w.statusBar
  keyBound,                 \* self.w.bind('became key', ...) was done
  glyphset,                 \* the local glyphset of the last getLangsForScript_
  lastCall,                 \* how it ended: "never", "returned" or "raised"
  raised,                   \* exception of the last handler
  hostQueries,              \* calls of Glyphs.glyphInfoForUnicode, per character
  updateCheck,              \* the request of checkForHyperglotUpdates: "idle",
                            \* "pending", "done", or "noticed" (Message shown)
  lastAdd                   \* when the last step was addGlyphsCallback: the
                            \* characters its selected rows listed, and newGlyphs

vars == << hg, hostInfo, font, pc, scriptsData, scriptsLangCount, glyphInfoByChar,
           charsByGlyphName, allMarks, currentScript, currentScriptSupported,
           currentScriptUnsupported, showSupported, showUnsupported, selectedScript,
           langsTable, statusBar, keyBound, glyphset, lastCall, raised, hostQueries,
           updateCheck, lastAdd >>

\* ------------------------------------------------------- Python helpers
Range(s) == {s[i] : i \in DOMAIN s}

EmptyDict == [k \in {} |-> 0]

\* d[k] = v on a dict
Put(d, k, v) == [x \in DOMAIN d \cup {k} |-> IF x = k THEN v ELSE d[x]]

Min(S) == CHOOSE x \in S : \A y \in S : x <= y

\* sorted(set(l)) of a list of characters: ascending by codepoint
RECURSIVE SortedSet(_)
SortedSet(S) ==
  IF S = {} THEN <<>> ELSE << Min(S) >> \o SortedSet(S \ {Min(S)})

\* ' '.join(l) of a list of strings
RECURSIVE Join(_)
Join(l) ==
  IF l = <<>> THEN <<>>
  ELSE IF Len(l) = 1 THEN l[1]
  ELSE l[1] \o << Space >> \o Join(Tail(l))

\* sorted(l, key=...), with keys[i] the key of l[i]: Python's sort is stable,
\* an element goes behind the elements whose key is not greater
RECURSIVE InsertByKey(_, _)
InsertByKey(p, s) ==
  IF s = <<>> THEN << p >>
  ELSE IF s[Len(s)].key <= p.key THEN Append(s, p)
  ELSE Append(InsertByKey(p, SubSeq(s, 1, Len(s) - 1)), s[Len(s)])

RECURSIVE SortPairs(_)
SortPairs(ps) ==
  IF ps = <<>> THEN <<>>
  ELSE InsertByKey(ps[Len(ps)], SortPairs(SubSeq(ps, 1, Len(ps) - 1)))

StableSort(l, keys) ==
  LET ps == SortPairs([i \in DOMAIN l |-> [key |-> keys[i], val |-> l[i]]])
  IN  [i \in DOMAIN ps |-> ps[i].val]

\* ---------------------------------------------------------------- charList
\* class charList(str): the string ' '.join(l), with the list kept in l
charList(l) == [l |-> l, str |-> Join(l)]

\* charList.listLen
listLen(cl) == Len(cl.l)

\* len(x) of a charList: charList defines no __len__, so it is str's
StrLen(cl) == Len(cl.str)

\* ------------------------------------------------- TalkingLeaves, the engine
\* The fields of the TalkingLeaves object that the handlers read and write
Self ==
  [info |-> glyphInfoByChar, chars |-> charsByGlyphName, marks |-> allMarks,
   langCount |-> scriptsLangCount, sup |-> currentScriptSupported,
   unsup |-> currentScriptUnsupported, currentScript |-> currentScript,
   langsTable |-> langsTable, statusBar |-> statusBar, glyphset |-> glyphset,
   lastCall |-> lastCall, raised |-> "none", queries |-> hostQueries]

\* glyphInfoForChar_ without the test of line 353: every call asks the host
glyphInfoForCharUncached(c, self) ==
  LET info == hostInfo[c]
      s1 == [self EXCEPT !.info = Put(@, c, info), !.queries[c] = @ + 1]
  IN  IF info = NoInfo THEN [s1 EXCEPT !.raised = "AttributeError"]
      ELSE [s1 EXCEPT !.chars = Put(@, info, c)]

\* glyphInfoForChar_: the object after the call.  A new character is
\* looked up and stored; info.name of a None info raises AttributeError
\* after the info was stored.
glyphInfoForChar(c, self) ==
  IF c \in DOMAIN self.info THEN self
  ELSE LET info == hostInfo[c]
           s1 == [self EXCEPT !.info = Put(@, c, info), !.queries[c] = @ + 1]
       IN  IF info = NoInfo THEN [s1 EXCEPT !.raised = "AttributeError"]
           ELSE [s1 EXCEPT !.chars = Put(@, info, c)]

\* [self.glyphInfoForChar_(c).name for c in cs]: the names and the object
\* after it; .name of a cached None raises AttributeError
RECURSIVE orthoGlyphNames(_, _, _)
orthoGlyphNames(cs, names, self) ==
  IF cs = <<>> THEN [names |-> names, self |-> self]
  ELSE LET s1 == glyphInfoForChar(Head(cs), self)
       IN  IF s1.raised # "none" THEN [names |-> names, self |-> s1]
           ELSE IF s1.info[Head(cs)] = NoInfo
                THEN [names |-> names, self |-> [s1 EXCEPT !.raised = "AttributeError"]]
           ELSE orthoGlyphNames(Tail(cs), Append(names, s1.info[Head(cs)]), s1)

\* the two branches of lines 310-313 exchanged
IsSupportedSwapped(g, glyphs) == g \notin glyphs

\* the test of lines 310-313
IsSupported(g, glyphs) == g \in glyphs

\* addDottedCircle, a closure over self.allMarks
addDottedCircle(c, marks) ==
  IF c \in marks THEN << DottedCircle, c >> ELSE << c >>

\* the two check boxes read the other way round
VisibleFlagsExchanged(nUnsupported, showUnsup, showSup) ==
  \/ (nUnsupported >= 1 /\ showSup)
  \/ (nUnsupported = 0 /\ showUnsup)

\* the condition of lines 333-334 for appending the row
Visible(nUnsupported, showUnsup, showSup) ==
  \/ (nUnsupported >= 1 /\ showUnsup)
  \/ (nUnsupported = 0 /\ showSup)

\* langYaml.get('speakers', -1) or -1
RowSpeakers(lang) ==
  IF lang.speakers = Absent \/ lang.speakers = 0 THEN NoSpeakers ELSE lang.speakers

\* Lines 318-343 for one orthography: the display lists, the counters and
\* the row, from the object s1 after the lookups and the two character
\* lists.  acc is [self, items]; the row keeps, in `of`, the orthography it
\* was made for.
MakeRow(lang, ortho, acc, s1, supportedChars, unsupportedChars, showUnsup, showSup) ==
  LET marks == s1.marks \cup Range(ortho.marks)
  IN  [self |-> [s1 EXCEPT !.marks = marks,
                           !.unsup = IF Len(unsupportedChars) > 0 THEN @ + 1 ELSE @,
                           !.sup = IF Len(unsupportedChars) > 0 THEN @ ELSE @ + 1],
       items |->
         IF Visible(Len(unsupportedChars), showUnsup, showSup)
         THEN Append(acc.items,
                [ISO |-> lang.code,
                 speakers |-> RowSpeakers(lang),
                 missing |-> charList([i \in DOMAIN unsupportedChars |->
                                         addDottedCircle(unsupportedChars[i], marks)]),
                 supported |-> charList([i \in DOMAIN supportedChars |->
                                           addDottedCircle(supportedChars[i], marks)]),
                 of |-> ortho])
         ELSE acc.items]

\* [self.charsByGlyphName[g] for g in names]
CharsOfNames(names, self) == [i \in DOMAIN names |-> self.chars[names[i]]]

\* Lines 307-316 for one orthography: r is [names, self] of the lookups of
\* line 305, which may have raised
Classify(lang, ortho, acc, r, glyphs, showUnsup, showSup) ==
  IF r.self.raised # "none" THEN [acc EXCEPT !.self = r.self]
  ELSE MakeRow(lang, ortho, acc, r.self,
               CharsOfNames(SelectSeq(r.names, LAMBDA g : IsSupported(g, glyphs)), r.self),
               CharsOfNames(SelectSeq(r.names, LAMBDA g : ~IsSupported(g, glyphs)), r.self),
               showUnsup, showSup)

\* The body of `for ortho in orthos` for one orthography
OrthoBody(lang, ortho, acc, glyphs, showUnsup, showSup) ==
  Classify(lang, ortho, acc,
           orthoGlyphNames(SortedSet(Range(ortho.base)) \o ortho.marks, <<>>, acc.self),
           glyphs, showUnsup, showSup)

RECURSIVE OrthoLoop(_, _, _, _, _, _)
OrthoLoop(lang, orthos, acc, glyphs, showUnsup, showSup) ==
  IF orthos = <<>> \/ acc.self.raised # "none" THEN acc
  ELSE OrthoLoop(lang, Tail(orthos),
                 OrthoBody(lang, Head(orthos), acc, glyphs, showUnsup, showSup),
                 glyphs, showUnsup, showSup)

\* The body of `for langCode in self.hg.keys()` from language i on.
\* o['script'] of an orthography without the key raises KeyError.
RECURSIVE LangLoop(_, _, _, _, _, _, _)
LangLoop(db, i, script, acc, glyphs, showUnsup, showSup) ==
  IF i > Len(db) \/ acc.self.raised # "none" THEN acc
  ELSE LET lang == db[i]
       IN  IF ~lang.hasOrthographies
           THEN LangLoop(db, i + 1, script, acc, glyphs, showUnsup, showSup)
           ELSE IF \E k \in DOMAIN lang.orthographies :
                     lang.orthographies[k].script = NoScript
           THEN [acc EXCEPT !.self.raised = "KeyError"]
           ELSE LET orthos == SelectSeq(lang.orthographies, LAMBDA o : o.script = script)
                    a1 == [acc EXCEPT !.self.langCount[script] = @ + Len(orthos)]
                IN  LangLoop(db, i + 1, script,
                             OrthoLoop(lang, orthos, a1, glyphs, showUnsup, showSup),
                             glyphs, showUnsup, showSup)

\* the key of the sort of line 344: len() of the 'Missing Chars' string
SortKey(row) == StrLen(row.missing)

\* line 344 and the return: acc is [self, items] after the loop
SortItems(acc) ==
  IF acc.self.raised # "none" THEN [acc EXCEPT !.self.lastCall = "raised"]
  ELSE [self |-> [acc.self EXCEPT !.lastCall = "returned"],
        items |-> StableSort(acc.items,
                             [i \in DOMAIN acc.items |-> SortKey(acc.items[i])])]

\* getLangsForScript_(script) on the object self with database db and
\* self.font.glyphs named glyphs: [self, items], items meaningful only when
\* self.raised = "none"
getLangsForScript(db, script, self, glyphs, showUnsup, showSup) ==
  SortItems(LangLoop(db, 1, script,
                     [self |-> [self EXCEPT !.glyphset = glyphs,
                                            !.langCount = Put(@, script, 0),
                                            !.unsup = 0, !.sup = 0, !.raised = "none"],
                      items |-> <<>>],
                     glyphs, showUnsup, showSup))

\* lang.get('speakers', 0) or 0
CatalogSpeakers(lang) == IF lang.speakers = Absent THEN 0 ELSE lang.speakers

\* speakers[ortho['script']] += ..., the script is appended at its first use
AddSpeakers(entries, script, n) ==
  IF \E k \in DOMAIN entries : entries[k].script = script
  THEN [k \in DOMAIN entries |->
          IF entries[k].script = script
          THEN [entries[k] EXCEPT !.speakers = @ + n] ELSE entries[k]]
  ELSE Append(entries, [script |-> script, speakers |-> n])

\* the loops of getScriptsAndSpeakers over the orthographies of one
\* language, then over the languages from i on
RECURSIVE SpeakersOfOrthos(_, _, _)
SpeakersOfOrthos(lang, orthos, acc) ==
  IF orthos = <<>> \/ acc.raised # "none" THEN acc
  ELSE IF Head(orthos).script = NoScript THEN [acc EXCEPT !.raised = "KeyError"]
  ELSE SpeakersOfOrthos(lang, Tail(orthos),
         [acc EXCEPT !.data = AddSpeakers(@, Head(orthos).script, CatalogSpeakers(lang))])

RECURSIVE SpeakersOfLangs(_, _, _)
SpeakersOfLangs(db, i, acc) ==
  IF i > Len(db) \/ acc.raised # "none" THEN acc
  ELSE SpeakersOfLangs(db, i + 1,
         SpeakersOfOrthos(db[i],
                          IF db[i].hasOrthographies THEN db[i].orthographies ELSE <<>>,
                          acc))

\* line 373: sorted(..., reverse=True) keeps ties in their order
SortCatalog(acc) ==
  [acc EXCEPT !.data =
     StableSort(acc.data, [i \in DOMAIN acc.data |-> 0 - acc.data[i].speakers])]

\* a catalog that starts with an entry for a script that no orthography has
getScriptsAndSpeakersWithUnwritten(db) ==
  SortCatalog(SpeakersOfLangs(db, 1, [data |-> << [script |-> "Unwritten", speakers |-> 0] >>,
                                      raised |-> "none"]))

\* getScriptsAndSpeakers: [data, raised], data ordered as the returned dict
getScriptsAndSpeakers(db) ==
  SortCatalog(SpeakersOfLangs(db, 1, [data |-> <<>>, raised |-> "none"]))

\* the percent of the status message
Percent(supported, total) == (supported * 100) \div total

\* updateStatusBar: self.currentScript is not set before the first
\* refreshLangs (AttributeError), and the division raises ZeroDivisionError
\* on a zero total
updateStatusBar(self) ==
  LET total == self.langCount[self.currentScript]
  IN  IF self.currentScript = NoScript THEN [self EXCEPT !.raised = "AttributeError"]
      ELSE IF total = 0 THEN [self EXCEPT !.raised = "ZeroDivisionError"]
      ELSE [self EXCEPT !.statusBar =
              [script |-> self.currentScript, total |-> total,
               supported |-> self.sup, percent |-> Percent(self.sup, total)]]

\* lines 400-402 of refreshLangs, r the result of getLangsForScript_
ShowLangs(r) ==
  IF r.self.raised # "none" THEN r.self
  ELSE updateStatusBar([r.self EXCEPT !.langsTable = r.items])

\* the script of lines 394-397: the selected row of the scripts table (sel,
\* 0 when none is selected) or the default script
ScriptOf(data, sel) == IF sel > 0 THEN data[sel].script ELSE data[1].script

\* refreshLangs
refreshLangs(db, self, data, sel, glyphs, showUnsup, showSup) ==
  ShowLangs(getLangsForScript(db, ScriptOf(data, sel),
                              [self EXCEPT !.currentScript = ScriptOf(data, sel)],
                              glyphs, showUnsup, showSup))

\* ------------------------------------------------------------- add glyphs
\* str.split(): the words between runs of spaces; cur is the word being
\* read, out the words read
RECURSIVE Split(_, _, _)
Split(str, cur, out) ==
  IF str = <<>> THEN (IF cur = <<>> THEN out ELSE Append(out, cur))
  ELSE IF Head(str) = Space
       THEN Split(Tail(str), <<>>, IF cur = <<>> THEN out ELSE Append(out, cur))
       ELSE Split(Tail(str), Append(cur, Head(str)), out)

\* GSGlyph(char): the host names the new glyph by the glyph info of the
\* character and gives it the character as its codepoint; two GSGlyph are
\* the same glyph when name and codepoint agree
GSGlyph(c) == [name |-> hostInfo[c], string |-> c]

\* lines 495-506 for the words of one row: char[-1] is the character, the
\* glyph is skipped when the codepoint is in charset, when the name is in
\* glyphset, and when it is in newGlyphs already
RECURSIVE AddWords(_, _, _, _)
AddWords(words, newGlyphs, charset, glyphs) ==
  IF words = <<>> THEN newGlyphs
  ELSE AddWords(Tail(words),
                IF \/ GSGlyph(Head(words)[Len(Head(words))]).string \in charset
                   \/ GSGlyph(Head(words)[Len(Head(words))]).name \in glyphs
                   \/ GSGlyph(Head(words)[Len(Head(words))]) \in Range(newGlyphs)
                THEN newGlyphs
                ELSE Append(newGlyphs, GSGlyph(Head(words)[Len(Head(words))])),
                charset, glyphs)

\* the loop of line 494 over the selected rows, from row i on
RECURSIVE AddRows(_, _, _, _, _, _)
AddRows(rows, i, selected, newGlyphs, charset, glyphs) ==
  IF i > Len(rows) THEN newGlyphs
  ELSE AddRows(rows, i + 1, selected,
               IF i \in selected
               THEN AddWords(Split(rows[i].missing.str, <<>>, <<>>), newGlyphs,
                             charset, glyphs)
               ELSE newGlyphs,
               charset, glyphs)

\* the characters that the selected rows list as missing
SelectedMissing(rows, selected) ==
  UNION {{w[Len(w)] : w \in Range(Split(rows[i].missing.str, <<>>, <<>>))} :
           i \in selected}

\* no addGlyphsCallback in the last step
NoAdd == [ran |-> FALSE, wanted |-> {}, newGlyphs |-> <<>>]

\* ------------------------------------------------------------ the session
\* What Glyphs.glyphInfoForUnicode may answer for the characters: any glyph
\* name or None, two characters may get one name.  Glyph names carry no
\* meaning of their own, so they are numbered in the order of the first
\* character that resolves to them.
HostMaps ==
  {f \in [Chars -> GlyphNames \cup {NoInfo}] :
     \A c \in Chars :
       f[c] > 1 => \E b \in 1..(c - 1) : f[b] = f[c] - 1}

NoStatus == [script |-> NoScript, total |-> 0, supported |-> 0, percent |-> 0]

SetSelf(s) ==
  /\ glyphInfoByChar' = s.info
  /\ charsByGlyphName' = s.chars
  /\ allMarks' = s.marks
  /\ scriptsLangCount' = s.langCount
  /\ currentScriptSupported' = s.sup
  /\ currentScriptUnsupported' = s.unsup
  /\ currentScript' = s.currentScript
  /\ langsTable' = s.langsTable
  /\ statusBar' = s.statusBar
  /\ glyphset' = s.glyphset
  /\ lastCall' = s.lastCall
  /\ raised' = s.raised
  /\ hostQueries' = s.queries

Init ==
  /\ hg \in Databases
  /\ hostInfo \in HostMaps
  /\ font \in SUBSET GlyphNames
  /\ pc = "start"
  /\ scriptsData = <<>>
  /\ scriptsLangCount = EmptyDict
  /\ glyphInfoByChar = EmptyDict
  /\ charsByGlyphName = EmptyDict
  /\ allMarks = {}
  /\ currentScript = NoScript
  /\ currentScriptSupported = 0
  /\ currentScriptUnsupported = 0
  /\ showSupported = FALSE
  /\ showUnsupported = TRUE
  /\ selectedScript = 0
  /\ langsTable = <<>>
  /\ statusBar = NoStatus
  /\ keyBound = FALSE
  /\ glyphset = {}
  /\ lastCall = "never"
  /\ raised = "none"
  /\ hostQueries = [c \in Chars |-> 0]
  /\ updateCheck = "idle"
  /\ lastAdd = NoAdd

\* lines 252-260 of fillTables: selecting the first script calls
\* refreshLangs, whose result is s; when nothing raised, __init__ goes on
\* to line 95 and sends the request of checkForHyperglotUpdates
SelectDefault(s) ==
  /\ SetSelf(s)
  /\ selectedScript' = 1
  /\ keyBound' = (s.raised = "none")
  /\ updateCheck' = IF s.raised = "none" THEN "pending" ELSE "idle"

\* fillTables, first the result of line 246
fillTables(data, first) ==
  IF first.self.raised # "none"
  THEN /\ SetSelf(first.self)
       /\ UNCHANGED << selectedScript, keyBound, updateCheck >>
  ELSE SelectDefault(refreshLangs(hg, [first.self EXCEPT !.langsTable = first.items],
                                  data, 1, font, showUnsupported, showSupported))

\* lines 85-93 of __init__, cat the result of getScriptsAndSpeakers
InitWith(cat) ==
  IF cat.raised # "none" \/ cat.data = <<>>
  THEN /\ pc' = "dead"
       /\ raised' = IF cat.raised # "none" THEN cat.raised ELSE "IndexError"
       /\ UNCHANGED << scriptsData, scriptsLangCount, glyphInfoByChar,
                       charsByGlyphName, allMarks, currentScript,
                       currentScriptSupported, currentScriptUnsupported,
                       selectedScript, langsTable, statusBar, keyBound, glyphset,
                       lastCall, hostQueries, updateCheck >>
  ELSE /\ pc' = "open"
       /\ scriptsData' = cat.data
       /\ fillTables(cat.data,
                     getLangsForScript(hg, cat.data[1].script, Self, font,
                                       showUnsupported, showSupported))

\* __init__: the catalog, then fillTables, which fills the languages table
\* for the default script and selects the first script, and that selection
\* calls refreshLangs
Construct ==
  /\ pc = "start"
  /\ UNCHANGED << hg, hostInfo, font, showSupported, showUnsupported >>
  /\ lastAdd' = NoAdd
  /\ InitWith(getScriptsAndSpeakers(hg))

\* the user selects another row of the scripts table: its selection
\* callback is refreshLangs
SelectScript(i) ==
  /\ pc = "open"
  /\ i \in DOMAIN scriptsData
  /\ i # selectedScript
  /\ selectedScript' = i
  /\ SetSelf(refreshLangs(hg, Self, scriptsData, i, font, showUnsupported, showSupported))
  /\ UNCHANGED << hg, hostInfo, font, pc, scriptsData, showSupported, showUnsupported,
                  keyBound, updateCheck >>
  /\ lastAdd' = NoAdd

\* the user toggles "Show completed"
showSupportedCallback ==
  /\ pc = "open"
  /\ showSupported' = ~showSupported
  /\ SetSelf(refreshLangs(hg, Self, scriptsData, selectedScript, font,
                          showUnsupported, ~showSupported))
  /\ UNCHANGED << hg, hostInfo, font, pc, scriptsData, showUnsupported, selectedScript,
                  keyBound, updateCheck >>
  /\ lastAdd' = NoAdd

\* the user toggles "Show incomplete"
showUnsupportedCallback ==
  /\ pc = "open"
  /\ showUnsupported' = ~showUnsupported
  /\ SetSelf(refreshLangs(hg, Self, scriptsData, selectedScript, font,
                          ~showUnsupported, showSupported))
  /\ UNCHANGED << hg, hostInfo, font, pc, scriptsData, showSupported, selectedScript,
                  keyBound, updateCheck >>
  /\ lastAdd' = NoAdd

\* the window becomes the key window
windowBecameKey ==
  /\ pc = "open"
  /\ keyBound
  /\ SetSelf(refreshLangs(hg, Self, scriptsData, selectedScript, font,
                          showUnsupported, showSupported))
  /\ UNCHANGED << hg, hostInfo, font, pc, scriptsData, showSupported, showUnsupported,
                  selectedScript, keyBound, updateCheck >>
  /\ lastAdd' = NoAdd

\* the host: the user adds a glyph to the font or removes one in Glyphs
HostEditsFont(g) ==
  /\ pc = "open"
  /\ font' = IF g \in font THEN font \ {g} ELSE font \cup {g}
  /\ UNCHANGED << hg, hostInfo, pc, scriptsData, scriptsLangCount, glyphInfoByChar,
                  charsByGlyphName, allMarks, currentScript, currentScriptSupported,
                  currentScriptUnsupported, showSupported, showUnsupported,
                  selectedScript, langsTable, statusBar, keyBound, glyphset, lastCall,
                  raised, hostQueries, updateCheck >>
  /\ lastAdd' = NoAdd

\* the selection of the languages table changes
langsSelectionCallback ==
  /\ pc = "open"
  /\ SetSelf(updateStatusBar(Self))
  /\ UNCHANGED << hg, hostInfo, font, pc, scriptsData, showSupported, showUnsupported,
                  selectedScript, keyBound, updateCheck >>
  /\ lastAdd' = NoAdd

Next ==
  \/ Construct
  \/ \E i \in DOMAIN scriptsData : SelectScript(i)
  \/ showSupportedCallback
  \/ showUnsupportedCallback
  \/ windowBecameKey
  \/ \E g \in GlyphNames : HostEditsFont(g)

Spec == Init /\ [][Next]_vars

\* updateStatusBar alone, on every count of orthographies and of complete
\* ones up to MaxTotal: the object is one whose last getLangsForScript_
\* returned these counters for Latin, and the selection of the languages
\* table changes
StatusInit ==
  /\ hg = <<>>
  /\ hostInfo = [c \in Chars |-> NoInfo]
  /\ font = {}
  /\ pc = "open"
  /\ scriptsData = << [script |-> "Latin", speakers |-> 0] >>
  /\ \E total \in 0..MaxTotal :
       /\ scriptsLangCount = [k \in {"Latin"} |-> total]
       /\ currentScriptSupported \in 0..total
       /\ currentScriptUnsupported = total - currentScriptSupported
  /\ glyphInfoByChar = EmptyDict
  /\ charsByGlyphName = EmptyDict
  /\ allMarks = {}
  /\ currentScript = "Latin"
  /\ showSupported = FALSE
  /\ showUnsupported = FALSE
  /\ selectedScript = 1
  /\ langsTable = <<>>
  /\ statusBar = NoStatus
  /\ keyBound = TRUE
  /\ glyphset = {}
  /\ lastCall = "returned"
  /\ raised = "none"
  /\ hostQueries = [c \in Chars |-> 0]
  /\ updateCheck = "idle"
  /\ lastAdd = NoAdd

StatusNext == langsSelectionCallback

StatusSpec == StatusInit /\ [][StatusNext]_vars

\* ----------------------------------------------------- the update check
\* hyperglot.__version__
InstalledVersion == "installed"

\* the JSON documents the PyPI address may answer with: without 'info',
\* with an 'info' without 'version', with the installed version and with
\* another one
JsonDocs ==
  { [k \in {"releases"} |-> [n \in {"none"} |-> "none"]],
    [k \in {"info"} |-> [n \in {"name"} |-> "hyperglot"]],
    [k \in {"info"} |-> [n \in {"version"} |-> InstalledVersion]],
    [k \in {"info"} |-> [n \in {"version"} |-> "newer"]] }

\* the data handed to the callback: text that utils.parseJson_ fails on, or
\* text that it parses to one of the documents
Payloads ==
  { [parses |-> FALSE, json |-> [k \in {"none"} |-> [n \in {"none"} |-> "none"]]] }
    \cup { [parses |-> TRUE, json |-> j] : j \in JsonDocs }

\* callback of checkForHyperglotUpdates, run by
\* utils.getTextFromURL_successfulThen_ when the answer has arrived: only
\* parseJson_ is inside the try, metadata['info']['version'] is not
callback(data) ==
  /\ pc = "open"
  /\ updateCheck = "pending"
  /\ IF ~data.parses
     THEN /\ raised' = "none"
          /\ updateCheck' = "done"
     ELSE IF "info" \notin DOMAIN data.json \/ "version" \notin DOMAIN data.json["info"]
     THEN /\ raised' = "KeyError"
          /\ updateCheck' = "done"
     ELSE /\ raised' = "none"
          /\ updateCheck' = IF data.json["info"]["version"] # InstalledVersion
                            THEN "noticed" ELSE "done"
  /\ UNCHANGED << hg, hostInfo, font, pc, scriptsData, scriptsLangCount, glyphInfoByChar,
                  charsByGlyphName, allMarks, currentScript, currentScriptSupported,
                  currentScriptUnsupported, showSupported, showUnsupported,
                  selectedScript, langsTable, statusBar, keyBound, glyphset, lastCall,
                  hostQueries >>
  /\ lastAdd' = NoAdd

\* the session with the answer of the update check arriving at any time
UpdateNext ==
  \/ Next
  \/ \E data \in Payloads : callback(data)

UpdateSpec == Init /\ [][UpdateNext]_vars

\* ------------------------------------------- the session with add glyphs
\* lines 508-518: the new glyphs are appended to the font and refreshLangs
\* runs on the font with them
AppendGlyphs(newGlyphs, selected) ==
  /\ font' = font \cup {newGlyphs[k].name : k \in DOMAIN newGlyphs}
  /\ SetSelf(refreshLangs(hg, Self, scriptsData, selectedScript,
                          font \cup {newGlyphs[k].name : k \in DOMAIN newGlyphs},
                          showUnsupported, showSupported))
  /\ lastAdd' = [ran |-> TRUE, wanted |-> SelectedMissing(langsTable, selected),
                 newGlyphs |-> newGlyphs]

\* addGlyphsCallback with the rows `selected` of the languages table
\* selected.  charset is the set of characters that glyphs of the font
\* have as codepoint (line 489): in Glyphs any glyph may be given any
\* codepoint, whatever its name.  Line 499 asks charset about the characters
\* of the selected rows only, so charset is given by its part among them.
addGlyphsCallback(selected, charset) ==
  /\ pc = "open"
  /\ AppendGlyphs(AddRows(langsTable, 1, selected, <<>>, charset, font), selected)
  /\ UNCHANGED << hg, hostInfo, pc, scriptsData, showSupported, showUnsupported,
                  selectedScript, keyBound, updateCheck >>

AddNext ==
  \/ Next
  \/ \E selected \in SUBSET DOMAIN langsTable :
       \E charset \in SUBSET SelectedMissing(langsTable, selected) :
         addGlyphsCallback(selected, charset)

AddSpec == Init /\ [][AddNext]_vars

\* ------------------------------------------------------------- properties
\* The last getLangsForScript_ returned: the languages table and the
\* counters are those of a completed getLangsForScript_(currentScript)
\* with the flags as they are and the glyph names in glyphset.
Returned == pc = "open" /\ lastCall = "returned"

\* the character of a display string: the dotted circle stripped
CharOf(d) == d[Len(d)]
HasCircle(d) == Len(d) = 2 /\ d[1] = DottedCircle

MissingChars(row) == {CharOf(row.missing.l[i]) : i \in DOMAIN row.missing.l}
SupportedChars(row) == {CharOf(row.supported.l[i]) : i \in DOMAIN row.supported.l}
Required(ortho) == Range(ortho.base) \cup Range(ortho.marks)

\* position of the row's language in the database iteration
DbPos(row) == CHOOSE i \in DOMAIN hg : hg[i].code = row.ISO

\* C1: the rows are ordered ascending by the number of missing characters,
\* rows with equal numbers in database order
C1_SortedByMissingCount ==
  Returned =>
    \A i, j \in DOMAIN langsTable :
      i < j =>
        /\ listLen(langsTable[i].missing) <= listLen(langsTable[j].missing)
        /\ listLen(langsTable[i].missing) = listLen(langsTable[j].missing)
             => DbPos(langsTable[i]) <= DbPos(langsTable[j])

\* C2: a second getLangsForScript_ for the same script with the same font
\* and flags returns the rows of the first
C2_Idempotent ==
  [][ ( /\ Returned /\ Returned'
        /\ currentScript' = currentScript
        /\ showSupported' = showSupported
        /\ showUnsupported' = showUnsupported
        /\ font' = font
        /\ glyphset = font /\ glyphset' = font' )
      => langsTable' = langsTable ]_vars

\* C3: a listed character has the dotted circle iff it is a mark of the
\* orthography of its row
C3_CircleIffOwnMark ==
  Returned =>
    \A r \in DOMAIN langsTable :
      LET row == langsTable[r]
      IN  /\ \A i \in DOMAIN row.missing.l :
                HasCircle(row.missing.l[i])
                  <=> CharOf(row.missing.l[i]) \in Range(row.of.marks)
          /\ \A i \in DOMAIN row.supported.l :
                HasCircle(row.supported.l[i])
                  <=> CharOf(row.supported.l[i]) \in Range(row.of.marks)

\* C4: supported and missing characters of a row are disjoint and together
\* are the required characters of its orthography
C4_PartitionOfRequired ==
  Returned =>
    \A r \in DOMAIN langsTable :
      /\ MissingChars(langsTable[r]) \cap SupportedChars(langsTable[r]) = {}
      /\ MissingChars(langsTable[r]) \cup SupportedChars(langsTable[r])
           = Required(langsTable[r].of)

\* the orthographies of a script, as <<language index, orthography index>>
OrthosOf(db, script) ==
  {p \in (DOMAIN db) \X (1..3) :
     /\ db[p[1]].hasOrthographies
     /\ p[2] \in DOMAIN db[p[1]].orthographies
     /\ db[p[1]].orthographies[p[2]].script = script}

OrthoAt(db, p) == db[p[1]].orthographies[p[2]]

\* C5: a required character without glyph info does not make the call
\* raise, and is listed as missing in the row of its orthography
C5_NoInfoIsMissing ==
  (pc = "open" /\ currentScript # NoScript) =>
    \A p \in OrthosOf(hg, currentScript) :
      \A c \in Required(OrthoAt(hg, p)) :
        hostInfo[c] = NoInfo =>
          /\ raised = "none"
          /\ showUnsupported =>
               \E r \in DOMAIN langsTable :
                 /\ langsTable[r].of = OrthoAt(hg, p)
                 /\ c \in MissingChars(langsTable[r])

RECURSIVE Sum(_, _)
Sum(f, S) ==
  IF S = {} THEN 0
  ELSE LET x == CHOOSE x \in S : TRUE IN f[x] + Sum(f, S \ {x})

\* an orthography is complete when every required character resolves to a
\* glyph name of the font
Complete(ortho, glyphs) == \A c \in Required(ortho) : hostInfo[c] \in glyphs

\* C6: a complete row is shown iff "show completed", an incomplete row iff
\* "show incomplete"; the counters count all orthographies of the script,
\* whatever the flags
C6_VisibilityFilter ==
  Returned =>
    LET all == OrthosOf(hg, currentScript)
        complete == {p \in all : Complete(OrthoAt(hg, p), glyphset)}
    IN  /\ \A r \in DOMAIN langsTable :
             /\ listLen(langsTable[r].missing) = 0 => showSupported
             /\ listLen(langsTable[r].missing) >= 1 => showUnsupported
        /\ Len(langsTable) = (IF showSupported THEN currentScriptSupported ELSE 0)
                           + (IF showUnsupported THEN currentScriptUnsupported ELSE 0)
        /\ currentScriptSupported = Cardinality(complete)
        /\ currentScriptUnsupported = Cardinality(all \ complete)
        /\ currentScriptSupported + currentScriptUnsupported
             = scriptsLangCount[currentScript]
        /\ scriptsLangCount[currentScript] = Cardinality(all)

C6_Witness ==
  /\ Returned
  /\ showSupported /\ ~showUnsupported
  /\ currentScriptSupported >= 1 /\ currentScriptUnsupported >= 1
  /\ Len(langsTable) = currentScriptSupported

LangsOf(db, script) == {p[1] : p \in OrthosOf(db, script)}

\* C8: the total of a script is the sum of the speakers of the languages
\* that have an orthography in it, each language once; the catalog is
\* descending by total, and once __init__ has finished a script of the
\* catalog is selected (the first one, until the user selects another)
C8_CatalogTotals ==
  (pc = "open") =>
    /\ \A k \in DOMAIN scriptsData :
         scriptsData[k].speakers
           = Sum([i \in DOMAIN hg |-> CatalogSpeakers(hg[i])],
                 LangsOf(hg, scriptsData[k].script))
    /\ \A k \in DOMAIN scriptsData :
         k > 1 => scriptsData[k - 1].speakers >= scriptsData[k].speakers
    /\ keyBound => selectedScript \in DOMAIN scriptsData

Malformed(db) ==
  \E i \in DOMAIN db : \E k \in DOMAIN db[i].orthographies :
    db[i].orthographies[k].script = NoScript

\* C9: a malformed orthography record (no script) is skipped: nothing
\* aborts and the totals are those of the well-formed orthographies
C9_MalformedSkipped ==
  (pc # "start" /\ Malformed(hg)) =>
    /\ pc = "open"
    /\ raised # "KeyError"
    /\ Returned =>
         scriptsLangCount[currentScript] = Cardinality(OrthosOf(hg, currentScript))

\* C10: a character listed as supported resolves to a glyph name of the
\* font as it was at the start of the call, a character listed as missing
\* to a glyph name that is not in it
C10_ClassificationSound ==
  Returned =>
    \A r \in DOMAIN langsTable :
      /\ \A c \in SupportedChars(langsTable[r]) :
           /\ c \in DOMAIN glyphInfoByChar
           /\ glyphInfoByChar[c] = hostInfo[c]
           /\ glyphInfoByChar[c] \in glyphset
      /\ \A c \in MissingChars(langsTable[r]) :
           /\ c \in DOMAIN glyphInfoByChar
           /\ glyphInfoByChar[c] = hostInfo[c]
           /\ glyphInfoByChar[c] \in GlyphNames \ glyphset

\* a row with both kinds, two of its characters sharing a glyph name, made
\* from the cache after the font was edited
C10_Witness ==
  /\ Returned
  /\ glyphset # {}
  /\ \E r \in DOMAIN langsTable :
       /\ listLen(langsTable[r].missing) >= 1
       /\ listLen(langsTable[r].supported) >= 1
       /\ \E a, b \in Required(langsTable[r].of) : a # b /\ hostInfo[a] = hostInfo[b]

\* the characters that the orthographies of a script require
RequiredIn(db, script) ==
  UNION {Required(OrthoAt(db, p)) : p \in OrthosOf(db, script)}

\* C11: in every step, no character has been asked of the host more than
\* once; a character that is cached stays cached with the same info and is
\* not asked again, whatever orthography or script it is evaluated for; a
\* character that enters the cache was asked exactly once, its cached info
\* is the host's answer, and the name of that info leads back to a
\* character of that name in charsByGlyphName
C11_QueriedOnce ==
  [][\A c \in Chars :
       /\ hostQueries'[c] <= 1
       /\ c \in DOMAIN glyphInfoByChar =>
            /\ c \in DOMAIN glyphInfoByChar'
            /\ glyphInfoByChar'[c] = glyphInfoByChar[c]
            /\ hostQueries'[c] = hostQueries[c]
       /\ c \notin DOMAIN glyphInfoByChar' => hostQueries'[c] = 0
       /\ (c \in DOMAIN glyphInfoByChar' /\ c \notin DOMAIN glyphInfoByChar) =>
            /\ hostQueries'[c] = 1
            /\ glyphInfoByChar'[c] = hostInfo[c]
            /\ hostInfo[c] # NoInfo =>
                 /\ hostInfo[c] \in DOMAIN charsByGlyphName'
                 /\ hostInfo[charsByGlyphName'[hostInfo[c]]] = hostInfo[c]]_vars

\* a character required by two scripts, both evaluated, asked once
C11_Witness ==
  /\ Returned
  /\ \E s1, s2 \in DOMAIN scriptsLangCount :
       /\ s1 # s2
       /\ \E c \in RequiredIn(hg, s1) \cap RequiredIn(hg, s2) :
            /\ hostQueries[c] = 1
            /\ c \in DOMAIN glyphInfoByChar

\* caches, counters, mark list and table rows
coverageState ==
  << scriptsData, scriptsLangCount, glyphInfoByChar, charsByGlyphName, allMarks,
     currentScript, currentScriptSupported, currentScriptUnsupported, langsTable,
     statusBar, lastCall, hostQueries >>

\* C12: whatever the callback of the update check receives and whenever it
\* runs, it raises nothing and leaves the coverage state as it was
C12_UpdateCheckSwallowed ==
  [][(updateCheck = "pending" /\ updateCheck' # "pending") =>
       /\ raised' = "none"
       /\ coverageState' = coverageState]_vars

\* the scripts of the catalog
CatalogScripts == {scriptsData[k].script : k \in DOMAIN scriptsData}

\* C13: every script of the catalog has an orthography in the database,
\* every total that getLangsForScript_ has written is for a script of the
\* catalog and is at least 1 (also when the call raised later on), so no
\* handler has divided by zero and updateStatusBar would not
C13_TotalAtLeastOne ==
  /\ raised # "ZeroDivisionError"
  /\ \A script \in CatalogScripts : Cardinality(OrthosOf(hg, script)) >= 1
  /\ \A script \in DOMAIN scriptsLangCount :
       /\ script \in CatalogScripts
       /\ scriptsLangCount[script] >= 1
  /\ (pc = "open" /\ currentScript # NoScript) =>
       /\ currentScript \in DOMAIN scriptsLangCount
       /\ updateStatusBar(Self).raised = "none"

\* every script of a catalog of two has been evaluated, the last time by the
\* refreshLangs of addGlyphsCallback, which wrote the status bar
C13_Witness ==
  /\ Returned
  /\ lastAdd.ran
  /\ Cardinality(CatalogScripts) >= 2
  /\ DOMAIN scriptsLangCount = CatalogScripts
  /\ statusBar.script = currentScript
  /\ statusBar.total = scriptsLangCount[currentScript]

\* C14: after addGlyphsCallback and its refreshLangs, no character that a
\* selected row listed as missing is listed as missing in a row of the new
\* table, and no two of the glyphs it added have the same name
C14_AddedNoLongerMissing ==
  (lastAdd.ran /\ Returned) =>
    /\ \A c \in lastAdd.wanted :
         \A r \in DOMAIN langsTable : c \notin MissingChars(langsTable[r])
    /\ \A a, b \in DOMAIN lastAdd.newGlyphs :
         a # b => lastAdd.newGlyphs[a].name # lastAdd.newGlyphs[b].name

====
